---- MODULE Spec2Model ----
(***************************************************************************)
(* Model of the AI to-do list application (src/app.py): the SQLite task    *)
(* store (init_db, add_task, get_tasks, set_done, delete_task,             *)
(* update_priority), the HuggingFace priority advisor                      *)
(* (ai_suggest_priority) and the Streamlit script that drives them.        *)
(*                                                                         *)
(* Three specifications are given.                                         *)
(*   SpecStore    the store's functions called directly, with any task id  *)
(*                (present or not) and any valid input;                    *)
(*   Spec         the application: each action is one user event followed  *)
(*                by one complete run of the Streamlit script;             *)
(*   SpecAdvisor  ai_suggest_priority applied to every modelled reply of   *)
(*                the remote service.                                      *)
(***************************************************************************)
EXTENDS Integers, Sequences, FiniteSets, TLC

VARIABLES
    db,               \* tasks.db: [tasks : id -> row, seq : sqlite_sequence of table tasks]
    now,              \* the UTC clock, in ticks (see TicksPerSecond)
    title,            \* widget state of st.text_input("Task title")
    notes,            \* widget state of st.text_area("Notes (optional)")
    priority_select,  \* widget state of st.selectbox("Priority", ...) of the add form
    show_done,        \* widget state of st.checkbox("Show completed tasks")
    rows,             \* the rows the last script run rendered (result of get_tasks)
    assigned,         \* history: the ids add_task has assigned, in order
    marked,           \* history: the tasks marked done and since neither unmarked nor deleted
    last              \* history: the store call or advisor call of the last step

vars == <<db, now, title, notes, priority_select, show_done, rows, assigned, marked, last>>

-----------------------------------------------------------------------------
(* Bounds of the model *)

\* number of rows ever inserted (the largest id ever assigned)
MaxId == 3

\* number of tasks added through the form (Spec)
MaxAdds == 1

\* resolution of the modelled clock: ticks per second
TicksPerSecond == 2

-----------------------------------------------------------------------------
(* Text values.  TLC cannot look inside a string, so the bytes of every    *)
(* string that reaches a TEXT comparison are tabulated here.               *)

PRIORITIES == <<"Low", "Medium", "High">>

Priorities == {PRIORITIES[i] : i \in 1..Len(PRIORITIES)}

\* labels the remote service may send that are not candidate labels
OtherLabels == {"Urgent"}

Bytes(s) ==
    CASE s = "Low"    -> <<76, 111, 119>>
      [] s = "Medium" -> <<77, 101, 100, 105, 117, 109>>
      [] s = "High"   -> <<72, 105, 103, 104>>
      [] s = "Urgent" -> <<85, 114, 103, 101, 110, 116>>
      [] s = "H"      -> <<72>>
      [] s = "L"      -> <<76>>
      [] s = "M"      -> <<77>>
      [] s = "U"      -> <<85>>

\* s[0] of a Python string taken from the labels used here
FirstChar(s) ==
    CASE s \in {"High", "H"}   -> "H"
      [] s \in {"Low", "L"}    -> "L"
      [] s \in {"Medium", "M"} -> "M"
      [] s \in {"Urgent", "U"} -> "U"

\* a and b agree before position k: does a come before b from there on?
RECURSIVE LessFrom(_, _, _)
LessFrom(a, b, k) ==
    IF k > Len(a) THEN k <= Len(b)
    ELSE IF k > Len(b) THEN FALSE
    ELSE IF a[k] # b[k] THEN a[k] < b[k]
    ELSE LessFrom(a, b, k + 1)

\* SQLite's BINARY collation on TEXT: memcmp, then the shorter string first
TextLess(a, b) == LessFrom(a, b, 1)

Digit(d) == 48 + d

\* the last n decimal digits of v, as characters
RECURSIVE Digits(_, _)
Digits(v, n) ==
    IF n = 0 THEN <<>> ELSE Append(Digits(v \div 10, n - 1), Digit(v % 10))

\* datetime.isoformat() of the clock reading t: "...:SS" when the microsecond
\* field is 0 and "...:SS.ffffff" otherwise.  The clock stays within one
\* minute, so the date, hour and minute ("YYYY-MM-DDTHH:MM:") are the same in
\* every value and are left out.
isoformat(t) ==
    LET second      == t \div TicksPerSecond
        microsecond == (t % TicksPerSecond) * (1000000 \div TicksPerSecond)
    IN  Digits(second, 2)
          \o (IF microsecond = 0 THEN <<>> ELSE <<46>> \o Digits(microsecond, 6))

-----------------------------------------------------------------------------
(* Task store *)

Max(S) == CHOOSE x \in S : \A y \in S : y <= x

\* as if the column were INTEGER PRIMARY KEY without AUTOINCREMENT
NextRowidReuse(d) == Max(DOMAIN d.tasks \cup {0}) + 1

\* id INTEGER PRIMARY KEY AUTOINCREMENT: one more than the largest rowid the
\* table has ever held (kept in sqlite_sequence)

NextRowid(d) == Max(DOMAIN d.tasks \cup {d.seq}) + 1

\* CREATE TABLE IF NOT EXISTS: nothing changes once the table exists
init_db(d) == d

\* as if the INSERT left the priority column to its DEFAULT 'Medium'
AddTaskDefaultPriority(d, t, n, p, utcnow) ==
    LET id  == NextRowid(d)
        row == [title |-> t, notes |-> n, priority |-> "Medium", done |-> 0,
                created_at |-> isoformat(utcnow)]
    IN  [tasks |-> [i \in DOMAIN d.tasks \cup {id} |->
                       IF i = id THEN row ELSE d.tasks[i]],
         seq   |-> id]

add_task(d, t, n, p, utcnow) ==
    LET id  == NextRowid(d)
        row == [title |-> t, notes |-> n, priority |-> p, done |-> 0,
                created_at |-> isoformat(utcnow)]
    IN  [tasks |-> [i \in DOMAIN d.tasks \cup {id} |->
                       IF i = id THEN row ELSE d.tasks[i]],
         seq   |-> id]

\* as if the UPDATE had no WHERE clause
SetDoneEveryRow(d, task_id, done) ==
    [d EXCEPT !.tasks = [i \in DOMAIN d.tasks |-> [d.tasks[i] EXCEPT !.done = done]]]

set_done(d, task_id, done) ==
    [d EXCEPT !.tasks = [i \in DOMAIN d.tasks |->
        IF i = task_id THEN [d.tasks[i] EXCEPT !.done = done] ELSE d.tasks[i]]]

delete_task(d, task_id) ==
    [d EXCEPT !.tasks = [i \in DOMAIN d.tasks \ {task_id} |-> d.tasks[i]]]

\* as if the UPDATE had no WHERE clause
UpdatePriorityEveryRow(d, task_id, priority) ==
    [d EXCEPT !.tasks = [i \in DOMAIN d.tasks |->
        [d.tasks[i] EXCEPT !.priority = priority]]]

update_priority(d, task_id, priority) ==
    [d EXCEPT !.tasks = [i \in DOMAIN d.tasks |->
        IF i = task_id THEN [d.tasks[i] EXCEPT !.priority = priority]
        ELSE d.tasks[i]]]

\* as if the WHERE clause were missing from the second query
SelectedEveryRow(d, sd) == DOMAIN d.tasks

\* WHERE done=0, when completed tasks are not shown
Selected(d, sd) ==
    IF sd THEN DOMAIN d.tasks ELSE {i \in DOMAIN d.tasks : d.tasks[i].done = 0}

\* as if the rows were ordered by the rank High > Medium > Low
Rank(p) == CASE p = "High" -> 3 [] p = "Medium" -> 2 [] OTHER -> 1

RankCreatedBefore(r1, r2) ==
    IF r1.priority # r2.priority
    THEN Rank(r1.priority) > Rank(r2.priority)
    ELSE TextLess(r2.created_at, r1.created_at)

\* r1 comes strictly before r2 under ORDER BY priority DESC, created_at DESC
PriorityCreatedBefore(r1, r2) ==
    IF r1.priority # r2.priority
    THEN TextLess(Bytes(r2.priority), Bytes(r1.priority))
    ELSE TextLess(r2.created_at, r1.created_at)

\* ... and under ORDER BY done, priority DESC, created_at DESC
DoneFirstBefore(r1, r2) ==
    \/ r1.done < r2.done
    \/ r1.done = r2.done /\ PriorityCreatedBefore(r1, r2)

OrderBefore(sd, r1, r2) ==
    IF sd THEN DoneFirstBefore(r1, r2) ELSE PriorityCreatedBefore(r1, r2)

\* SELECT id, title, notes, priority, done
Columns(d, i) ==
    <<i, d.tasks[i].title, d.tasks[i].notes, d.tasks[i].priority, d.tasks[i].done>>

\* The arrangements of the rows S that ORDER BY allows, built by insertion:
\* a row goes to any place where no row before it must follow it and no row
\* after it must precede it.  Rows that compare equal on every ORDER BY key
\* may come in either order.
RECURSIVE OrderBy(_, _, _)
OrderBy(d, sd, S) ==
    IF S = {} THEN {<<>>}
    ELSE LET i == CHOOSE x \in S : TRUE
             Fits(r, p) ==
                 /\ \A k \in 1..(p - 1) : ~OrderBefore(sd, d.tasks[i], d.tasks[r[k]])
                 /\ \A k \in p..Len(r) : ~OrderBefore(sd, d.tasks[r[k]], d.tasks[i])
         IN  UNION {{SubSeq(r, 1, p - 1) \o <<i>> \o SubSeq(r, p, Len(r)) :
                        p \in {q \in 1..(Len(r) + 1) : Fits(r, q)}} :
                    r \in OrderBy(d, sd, S \ {i})}

\* the results rows = c.fetchall() may be
get_tasks(d, sd) ==
    {[k \in 1..Len(s) |-> Columns(d, s[k])] : s \in OrderBy(d, sd, Selected(d, sd))}

-----------------------------------------------------------------------------
(* Priority advisor *)

\* longest "labels" list a modelled response carries
MaxLabels == 2

Labels == Priorities \cup OtherLabels

LabelLists == UNION {[1..n -> Labels] : n \in 0..MaxLabels}

\* What requests.post(...) and response.json() may give.  kind says what
\* happened on the wire and what JSON value came back; labels is the value of
\* "labels" when that is a list, text its value when that is a string.
Shape(k, l, t) == [kind |-> k, labels |-> l, text |-> t]

FailedCalls == {Shape(k, <<>>, "") : k \in {"ConnectionError", "Timeout", "NotJson"}}

NoLabelsField ==
    {Shape(k, <<>>, "") : k \in {"null", "number", "list", "string", "dict"}}

OddLabelsField ==
    {Shape(k, <<>>, "") : k \in {"list_holding_labels", "string_holding_labels",
                                  "labels_null", "labels_number", "labels_dict",
                                  "labels_empty_string"}}
      \cup {Shape("labels_string", <<>>, t) : t \in {"High"}}

RankedLabels == {Shape("labels_list", l, "") : l \in LabelLists}

Responses == FailedCalls \cup NoLabelsField \cup OddLabelsField \cup RankedLabels

Raise(e) == [raised |-> e, returned |-> FALSE, value |-> ""]

Return(v) == [raised |-> "None", returned |-> TRUE, value |-> v]

FallThrough == [raised |-> "None", returned |-> FALSE, value |-> ""]

\* the body of the try block: requests.post, response.json(),
\* if "labels" in data: return data["labels"][0]
TryBody(resp) ==
    CASE resp.kind = "ConnectionError"       -> Raise("ConnectionError")
      [] resp.kind = "Timeout"               -> Raise("Timeout")
      [] resp.kind = "NotJson"               -> Raise("JSONDecodeError")
      [] resp.kind \in {"null", "number"}    -> Raise("TypeError")
      [] resp.kind \in {"list", "string", "dict"} -> FallThrough
      [] resp.kind \in {"list_holding_labels", "string_holding_labels"}
                                             -> Raise("TypeError")
      [] resp.kind \in {"labels_null", "labels_number"} -> Raise("TypeError")
      [] resp.kind = "labels_dict"           -> Raise("KeyError")
      [] resp.kind = "labels_empty_string"   -> Raise("IndexError")
      [] resp.kind = "labels_string"         -> Return(FirstChar(resp.text))
      [] resp.kind = "labels_list"           ->
            IF resp.labels = <<>> THEN Raise("IndexError")
            ELSE Return(resp.labels[1])

\* as if the handler were "except requests.RequestException"
ExceptOnlyRequestErrors(e) == e \in {"ConnectionError", "Timeout"}

\* except Exception: every exception the body raises is an Exception
ExceptException(e) == TRUE

\* [raised, value]: the exception that leaves the function ("None" when it
\* returns) and the value returned.  t and n go into the request only; what
\* comes back is the remote service's choice.
ai_suggest_priority(t, n, resp) ==
    LET o == TryBody(resp)
    IN  IF o.raised # "None" /\ ~ExceptException(o.raised)
        THEN [raised |-> o.raised, value |-> ""]
        ELSE IF o.raised = "None" /\ o.returned
        THEN [raised |-> "None", value |-> o.value]
        ELSE [raised |-> "None", value |-> "Medium"]

-----------------------------------------------------------------------------
(* Initial state: the first script run has called init_db() on an empty    *)
(* database and rendered the empty list; every widget holds its default.   *)

Titles == {"", "a"}

Notes == {"", "n"}

NoCall == [op |-> "none"]

Ids == 1..MaxId

Init ==
    /\ db = [tasks |-> <<>>, seq |-> 0]
    /\ now = 0
    /\ title = ""
    /\ notes = ""
    /\ priority_select = PRIORITIES[1]
    /\ show_done = FALSE
    /\ rows = <<>>
    /\ assigned = <<>>
    /\ marked = {}
    /\ last = NoCall

ui == <<title, notes, priority_select, show_done, rows>>

-----------------------------------------------------------------------------
(* SpecStore: the store's functions called directly *)

\* datetime.utcnow(): a reading is later than the one before it (opening the
\* database, inserting and committing take longer than the clock's resolution)
Tick(t) == t = now + 1

\* the history of setDone(id, done): an existing task marked done is recorded
\* until it is unmarked (or deleted)
AfterSetDone(id, done) ==
    IF done = 1
    THEN (IF id \in DOMAIN db.tasks THEN marked \cup {id} ELSE marked)
    ELSE marked \ {id}

Create(t, n, p) ==
    /\ db.seq < MaxId
    /\ \E utcnow \in now..(now + 1) :
          /\ Tick(utcnow)
          /\ now' = utcnow
          /\ db' = add_task(db, t, n, p, utcnow)
    /\ assigned' = Append(assigned, db'.seq)
    /\ last' = [op |-> "add_task", id |-> db'.seq, title |-> t, notes |-> n,
                priority |-> p]
    /\ UNCHANGED <<marked, ui>>

SetDone(id, done) ==
    /\ db' = set_done(db, id, done)
    /\ marked' = AfterSetDone(id, done)
    /\ last' = [op |-> "set_done", id |-> id, done |-> done]
    /\ UNCHANGED <<now, assigned, ui>>

UpdatePriority(id, p) ==
    /\ db' = update_priority(db, id, p)
    /\ last' = [op |-> "update_priority", id |-> id, priority |-> p]
    /\ UNCHANGED <<now, assigned, marked, ui>>

Delete(id) ==
    /\ db' = delete_task(db, id)
    /\ marked' = marked \ {id}
    /\ last' = [op |-> "delete_task", id |-> id]
    /\ UNCHANGED <<now, assigned, ui>>

Initialize ==
    /\ db' = init_db(db)
    /\ last' = [op |-> "init_db"]
    /\ UNCHANGED <<now, assigned, marked, ui>>

NextStore ==
    \/ \E t \in Titles \ {""}, n \in Notes, p \in Priorities : Create(t, n, p)
    \/ \E id \in Ids, done \in {0, 1} : SetDone(id, done)
    \/ \E id \in Ids, p \in Priorities : UpdatePriority(id, p)
    \/ \E id \in Ids : Delete(id)
    \/ Initialize

SpecStore == Init /\ [][NextStore]_vars

-----------------------------------------------------------------------------
(* Spec: the Streamlit script.  Every action is one user event (a widget   *)
(* changes, or one button is clicked) and the script run it triggers, with *)
(* the rerun that st.experimental_rerun() starts after a store call.       *)
(* A st.button returns True only in the run that its own click triggered,  *)
(* so no run sees two buttons pressed.                                     *)

\* the ids of the rows a result holds
RowIds(result) == {result[k][1] : k \in 1..Len(result)}

\* The task rows the loop renders: ['Low','Medium','High'].index(t_priority)
\* raises ValueError at the first row whose priority is not in the list, and
\* the run ends there.
Rendered(result) ==
    LET bad == {k \in 1..Len(result) : result[k][4] \notin Priorities}
    IN  IF bad = {} THEN result
        ELSE SubSeq(result, 1, (CHOOSE k \in bad : \A j \in bad : k <= j) - 1)

\* rows = get_tasks(show_done=show_done), then the loop over the rows
Render(d, sd) == {Rendered(r) : r \in get_tasks(d, sd)}

\* priority_select after "priority_select = suggested": the script's local name
LocalPrioritySelect(widget, asked, suggested) ==
    IF asked THEN suggested ELSE widget

\* as if the suggestion were written to the selectbox's state
SelectboxKeepsSuggestion(widget, local) == local

\* The selectbox's own state after the run: the assignment rebinds the
\* script's local name and leaves the widget alone.
SelectboxAfterRun(widget, local) == widget

\* a run in which no button is pressed and no task widget has changed
QuietRun(sd) ==
    /\ db' = init_db(db)
    /\ rows' \in Render(db', sd)
    /\ last' = NoCall
    /\ UNCHANGED <<now, assigned, marked>>

EditTitle(t) ==
    /\ t # title
    /\ title' = t
    /\ QuietRun(show_done)
    /\ UNCHANGED <<notes, priority_select, show_done>>

EditNotes(n) ==
    /\ n # notes
    /\ notes' = n
    /\ QuietRun(show_done)
    /\ UNCHANGED <<title, priority_select, show_done>>

SelectPriority(p) ==
    /\ p # priority_select
    /\ priority_select' = p
    /\ QuietRun(show_done)
    /\ UNCHANGED <<title, notes, show_done>>

ToggleShowDone ==
    /\ show_done' = ~show_done
    /\ QuietRun(show_done')
    /\ UNCHANGED <<title, notes, priority_select>>

\* what ai_suggest_priority may give the script, over every modelled reply
Suggestions(t, n) == {ai_suggest_priority(t, n, resp) : resp \in Responses}

\* "Suggest priority with AI" clicked: ai_button is True, "Add task" is False
ClickSuggest(s) ==
    LET asked == title # ""
        local == LocalPrioritySelect(priority_select, asked, s.value)
    IN  IF ~asked
        THEN QuietRun(show_done) /\ UNCHANGED <<title, notes, priority_select, show_done>>
        ELSE /\ db' = init_db(db)
             /\ last' = [op |-> "ai_suggest_priority", raised |-> s.raised,
                         value |-> s.value]
             /\ IF s.raised # "None"
                THEN rows' = <<>> /\ UNCHANGED priority_select
                ELSE /\ priority_select' = SelectboxAfterRun(priority_select, local)
                     /\ rows' \in Render(db', show_done)
             /\ UNCHANGED <<now, assigned, marked, title, notes, show_done>>

\* "Add task" clicked: ai_button is False, so priority_select is the widget's value
ClickAdd ==
    LET local == LocalPrioritySelect(priority_select, FALSE, priority_select)
    IN  IF title = ""
        THEN QuietRun(show_done) /\ UNCHANGED <<title, notes, priority_select, show_done>>
        ELSE /\ db.seq < MaxAdds
             /\ \E utcnow \in now..(now + 1) :
                   /\ Tick(utcnow)
                   /\ now' = utcnow
                   /\ db' = add_task(init_db(db), title, notes, local, utcnow)
             /\ assigned' = Append(assigned, db'.seq)
             /\ last' = [op |-> "add_task", id |-> db'.seq, title |-> title,
                         notes |-> notes, priority |-> local]
             /\ priority_select' = SelectboxAfterRun(priority_select, local)
             /\ rows' \in Render(db', show_done)
             /\ UNCHANGED <<marked, title, notes, show_done>>

\* The Delete button of a rendered row: delete_task, then the rerun
ClickDelete(id) ==
    /\ id \in RowIds(rows)
    /\ db' = delete_task(init_db(db), id)
    /\ marked' = marked \ {id}
    /\ last' = [op |-> "delete_task", id |-> id]
    /\ rows' \in Render(db', show_done)
    /\ UNCHANGED <<now, assigned, title, notes, priority_select, show_done>>

\* The checkbox of a rendered row: done_chk != bool(t_done), so
\* set_done(task_id, 1 if done_chk else 0), then the rerun
ToggleDone(id) ==
    /\ id \in RowIds(rows)
    /\ LET done_chk == ~(db.tasks[id].done = 1)
           done     == IF done_chk THEN 1 ELSE 0
       IN  /\ db' = set_done(init_db(db), id, done)
           /\ marked' = AfterSetDone(id, done)
           /\ last' = [op |-> "set_done", id |-> id, done |-> done]
    /\ rows' \in Render(db', show_done)
    /\ UNCHANGED <<now, assigned, title, notes, priority_select, show_done>>

\* The selectbox of a rendered row: new_pri != t_priority, so
\* update_priority(task_id, new_pri), then the rerun
ChangePriority(id, new_pri) ==
    /\ id \in RowIds(rows)
    /\ new_pri # db.tasks[id].priority
    /\ db' = update_priority(init_db(db), id, new_pri)
    /\ last' = [op |-> "update_priority", id |-> id, priority |-> new_pri]
    /\ rows' \in Render(db', show_done)
    /\ UNCHANGED <<now, assigned, marked, title, notes, priority_select, show_done>>

Next ==
    \/ \E t \in Titles : EditTitle(t)
    \/ \E n \in Notes : EditNotes(n)
    \/ \E p \in Priorities : SelectPriority(p)
    \/ ToggleShowDone
    \/ \E s \in Suggestions(title, notes) : ClickSuggest(s)
    \/ ClickAdd
    \/ \E id \in 1..MaxAdds : ClickDelete(id)
    \/ \E id \in 1..MaxAdds : ToggleDone(id)
    \/ \E id \in 1..MaxAdds, p \in Priorities : ChangePriority(id, p)

Spec == Init /\ [][Next]_vars

-----------------------------------------------------------------------------
(* SpecAdvisor: ai_suggest_priority on every modelled reply *)

InitAdvisor ==
    /\ db = [tasks |-> <<>>, seq |-> 0]
    /\ now = 0
    /\ title \in Titles
    /\ notes \in Notes
    /\ priority_select = PRIORITIES[1]
    /\ show_done = FALSE
    /\ rows = <<>>
    /\ assigned = <<>>
    /\ marked = {}
    /\ last = NoCall

Suggest(resp) ==
    /\ last' = [op |-> "ai_suggest_priority", response |-> resp,
                result |-> ai_suggest_priority(title, notes, resp)]
    /\ UNCHANGED <<db, now, assigned, marked, ui>>

NextAdvisor == \E resp \in Responses : Suggest(resp)

SpecAdvisor == InitAdvisor /\ [][NextAdvisor]_vars

-----------------------------------------------------------------------------
(* Properties *)

\* the step called add_task
Created == last'.op = "add_task" /\ assigned' # assigned

\* the rows of result r whose title, notes and priority are t, n and p
Matching(r, t, n, p) ==
    {k \in 1..Len(r) : r[k][2] = t /\ r[k][3] = n /\ r[k][4] = p}

\* C1: in every state the application reaches, whatever the advisor returned,
\* the priority of every persisted task is one of Low, Medium, High.
C1_PriorityAlwaysValid ==
    \A i \in DOMAIN db.tasks : db.tasks[i].priority \in {"Low", "Medium", "High"}

\* the advisor has just returned a label outside the three (the suggestion
\* was shown for a non-empty title) while a task is persisted
C1_Witness ==
    /\ last.op = "ai_suggest_priority"
    /\ last.value = "Urgent"
    /\ DOMAIN db.tasks # {}

\* C2 as stated: after create(t, n, p) on any store state, the listing of all
\* tasks holds exactly one task with these title, notes and priority, and it
\* is not done.
C2_ExactlyOneMatch ==
    last.op = "add_task" =>
        \A r \in get_tasks(db, TRUE) :
            LET m == Matching(r, last.title, last.notes, last.priority)
            IN  Cardinality(m) = 1 /\ \A k \in m : r[k][5] = 0

\* C2 amended: create(t, n, p) adds exactly one task to the listing of all
\* tasks; that task has a new id, title t, notes n, priority p and done = 0;
\* every task listed before is listed unchanged; so the tasks matching the
\* inputs are one more than before (exactly one when none matched before).
C2_OneNewMatch ==
    [][Created =>
        \A r \in get_tasks(db, TRUE), r2 \in get_tasks(db', TRUE) :
            LET old == {r[k] : k \in 1..Len(r)}
                new == {r2[k] : k \in 1..Len(r2)}
            IN  /\ Len(r2) = Len(r) + 1
                /\ old \subseteq new
                /\ new \ old = {<<last'.id, last'.title, last'.notes, last'.priority, 0>>}
                /\ last'.id \notin RowIds(r)
                /\ Cardinality(Matching(r2, last'.title, last'.notes, last'.priority))
                     = Cardinality(Matching(r, last'.title, last'.notes, last'.priority)) + 1
      ]_vars

\* a task was created with the title, notes and priority of another live task
C2_Witness ==
    /\ last.op = "add_task"
    /\ \E i \in DOMAIN db.tasks \ {last.id} :
          /\ db.tasks[i].title = last.title
          /\ db.tasks[i].notes = last.notes
          /\ db.tasks[i].priority = last.priority

\* C3: whatever the remote classifier replies, suggest returns one of Low,
\* Medium, High.
C3_SuggestionIsPriority ==
    last.op = "ai_suggest_priority" =>
        /\ last.result.raised = "None"
        /\ last.result.value \in {"Low", "Medium", "High"}

\* the replies the claim calls failures: network error, timeout, a body that
\* is not JSON, a JSON value without a "labels" field, an empty "labels" list
FailedReply(resp) ==
    \/ resp.kind \in {"ConnectionError", "Timeout", "NotJson"}
    \/ resp.kind \in {"null", "number", "list", "string", "dict"}
    \/ resp.kind = "labels_list" /\ resp.labels = <<>>

\* C4: when the remote call fails (see FailedReply), suggest returns exactly
\* "Medium" and no exception leaves it.
C4_FailureGivesMedium ==
    (last.op = "ai_suggest_priority" /\ FailedReply(last.response)) =>
        last.result = [raised |-> "None", value |-> "Medium"]

\* suggest was applied to a reply whose "labels" list is empty
C4_Witness ==
    /\ last.op = "ai_suggest_priority"
    /\ last.response.kind = "labels_list"
    /\ last.response.labels = <<>>
    /\ last.result.value = "Medium"

\* C5: over any sequence of creates and deletes, each id create assigns is
\* greater than every id assigned before, so no id is assigned twice, and
\* every task's id is one that create assigned.
C5_IdsIncrease ==
    /\ \A i, j \in 1..Len(assigned) : i < j => assigned[i] < assigned[j]
    /\ DOMAIN db.tasks \subseteq {assigned[i] : i \in 1..Len(assigned)}

\* a task was created after every earlier task, the newest included, was deleted
C5_Witness ==
    /\ last.op = "add_task"
    /\ Len(assigned) >= 2
    /\ DOMAIN db.tasks = {last.id}

\* C6: every existing task that setDone(id, 1) has marked, and that no later
\* setDone(id, 0) or delete(id) has touched, is listed as completed: absent
\* from list(false), in list(true) with done = 1.
C6_DoneStaysHidden ==
    [](/\ marked \subseteq DOMAIN db.tasks
       /\ \A r \in get_tasks(db, FALSE) : RowIds(r) \cap marked = {}
       /\ \A r \in get_tasks(db, TRUE) :
             \A id \in marked : \E k \in 1..Len(r) : r[k][1] = id /\ r[k][5] = 1)

\* the priority of a completed task was changed while another task is open
C6_Witness ==
    /\ last.op = "update_priority"
    /\ last.id \in marked
    /\ \E i \in DOMAIN db.tasks : db.tasks[i].done = 0

\* position of a label when the three labels are sorted as strings, descending
LexicalPlace(p) == CASE p = "Medium" -> 1 [] p = "Low" -> 2 [] p = "High" -> 3

\* C7: every listing holds exactly the selected tasks, ordered by done
\* ascending (when completed tasks are included), then priority in the order
\* Medium, Low, High, then newest first; and with A(Low), B(High), C(Medium)
\* created in that order and all open, the listing of open tasks is C, A, B.
C7_ListOrder ==
    [](/\ \A sd \in BOOLEAN : \A r \in get_tasks(db, sd) :
             /\ RowIds(r) = {i \in DOMAIN db.tasks : sd \/ db.tasks[i].done = 0}
             /\ Len(r) = Cardinality(RowIds(r))
             /\ \A k \in 1..Len(r) : r[k] = Columns(db, r[k][1])
             /\ \A i, j \in 1..Len(r) : i < j =>
                   \/ sd /\ r[i][5] < r[j][5]
                   \/ /\ (sd => r[i][5] = r[j][5])
                      /\ \/ LexicalPlace(r[i][4]) < LexicalPlace(r[j][4])
                         \/ r[i][4] = r[j][4] /\ r[i][1] > r[j][1]
       /\ (/\ DOMAIN db.tasks = 1..3
           /\ db.tasks[1].priority = "Low"
           /\ db.tasks[2].priority = "High"
           /\ db.tasks[3].priority = "Medium"
           /\ \A i \in 1..3 : db.tasks[i].done = 0)
           => get_tasks(db, FALSE) = {<<Columns(db, 3), Columns(db, 1), Columns(db, 2)>>})

\* A(Low), B(High), C(Medium) were created in that order and are all open
C7_Witness ==
    /\ DOMAIN db.tasks = 1..3
    /\ db.tasks[1].priority = "Low"
    /\ db.tasks[2].priority = "High"
    /\ db.tasks[3].priority = "Medium"
    /\ \A i \in 1..3 : db.tasks[i].done = 0
    /\ last.op = "add_task"

\* C8: setDone, updatePriority and delete on an id that is not in the store
\* leave the tasks and all their fields unchanged, and after delete(id) (of a
\* present or an absent id) no listing holds id.
C8_MissingIdNoOp ==
    /\ [][(/\ last'.op \in {"set_done", "update_priority", "delete_task"}
           /\ last'.id \notin DOMAIN db.tasks)
            => db' = db
         ]_vars
    /\ [](last.op = "delete_task"
            => \A sd \in BOOLEAN : \A r \in get_tasks(db, sd) : last.id \notin RowIds(r))

\* setDone was called with an id that was never assigned, on a store with tasks
C8_Witness ==
    /\ last.op = "set_done"
    /\ last.id > db.seq
    /\ DOMAIN db.tasks # {}

\* C9: no step changes the created_at of a task; setDone(id, d) changes the
\* done field of task id to d and nothing else; updatePriority(id, p) changes
\* the priority field of task id to p and nothing else.
C9_OnlyTheFieldChanges ==
    [][/\ \A i \in DOMAIN db.tasks \cap DOMAIN db'.tasks :
             db'.tasks[i].created_at = db.tasks[i].created_at
       /\ last'.op = "set_done" =>
             /\ DOMAIN db'.tasks = DOMAIN db.tasks
             /\ db'.seq = db.seq
             /\ \A i \in DOMAIN db.tasks :
                   db'.tasks[i] = IF i = last'.id
                                  THEN [db.tasks[i] EXCEPT !.done = last'.done]
                                  ELSE db.tasks[i]
       /\ last'.op = "update_priority" =>
             /\ DOMAIN db'.tasks = DOMAIN db.tasks
             /\ db'.seq = db.seq
             /\ \A i \in DOMAIN db.tasks :
                   db'.tasks[i] = IF i = last'.id
                                  THEN [db.tasks[i] EXCEPT !.priority = last'.priority]
                                  ELSE db.tasks[i]
      ]_vars

\* updatePriority(id, "High") was applied to one of several tasks
C9_Witness ==
    /\ last.op = "update_priority"
    /\ last.priority = "High"
    /\ last.id \in DOMAIN db.tasks
    /\ db.tasks[last.id].priority = "High"
    /\ Cardinality(DOMAIN db.tasks) >= 2

\* C10: when the advisor has returned label L for a non-empty title and "Add
\* task" is clicked in the next cycle, the selector untouched, the task is
\* created with priority L.
C10_SuggestionIsPreselected ==
    [][(/\ last.op = "ai_suggest_priority"
        /\ last.raised = "None"
        /\ Created)
         => db'.tasks[last'.id].priority = last.value
      ]_vars

====
